---- MODULE Spec2Model ----
(***************************************************************************)
(* Model of the xml_c14n crate (src/src/lib.rs): canonicalize_xml, the     *)
(* safe wrapper around libxml2's xmlReadDoc / xmlC14NDocDumpMemory /       *)
(* xmlFreeDoc, with the resources each call allocates and releases.        *)
(*                                                                         *)
(* Strings are TLA+ strings, read byte by byte with SubSeq.  The byte 0x00 *)
(* cannot be written in a TLA+ string: NUL stands for it.  The native      *)
(* library is not part of lib.rs; xmlReadDoc and xmlC14NDocDumpMemory are  *)
(* modelled from the specification's sections 4.1 to 4.4 and operate on a  *)
(* parsed tree.                                                            *)
(***************************************************************************)
EXTENDS Integers, Sequences, FiniteSets, TLC

(***************************************************************************)
(* The state: the call in progress or just ended, and what earlier calls   *)
(* left allocated.                                                         *)
(***************************************************************************)
VARIABLES
    pc,         \* "idle" between calls, "done" when a call has ended
    call_document,   \* the document argument of the call
    call_options,    \* the options argument of the call
    result,     \* Ok, Err or the panic the call ended with
    native,     \* what xmlC14NDocDumpMemory was handed and returned
    events,     \* the allocations, uses and releases of the call, in order
    retained,   \* the kinds of allocation earlier calls never released
    memo        \* an earlier call and its result, kept for comparison

vars == <<pc, call_document, call_options, result, native, events, retained, memo>>

(***************************************************************************)
(* Bounds of the model.                                                    *)
(***************************************************************************)
\* children written under the root element of a generated document
MaxChildren == 1
\* entries of a generated inclusive_ns_prefixes list
MaxPrefixes == 2

(***************************************************************************)
(* Bytes and strings.                                                      *)
(***************************************************************************)
\* the byte 0x00
NUL == "@"
\* the allocations a call makes: the parsed document, the C string of the i-th
\* inclusive prefix, the native output buffer
DocRes == [kind |-> "doc", idx |-> 0]
CStrRes(i) == [kind |-> "cstr", idx |-> i]
OutRes == [kind |-> "out", idx |-> 0]

\* pointers: the null pointer, and a pointer to the value of an allocation
NULLPTR == [null |-> TRUE]
Ptr(res, v) == [null |-> FALSE, res |-> res, at |-> v]
IsNull(p) == p.null

\* the bytes names and URIs are made of, in ascending byte value
ByteOrder == "0123456789:abcdefghijklmnopqrstuvwxyz"

At(s, i) == SubSeq(s, i, i)

Ord(c) == CHOOSE i \in 1..Len(ByteOrder) : At(ByteOrder, i) = c

\* xmlStrcmp(a, b) < 0: byte-wise ordinal comparison
StrLess(a, b) ==
    \E i \in 1..Len(b) :
        /\ Len(a) >= i - 1
        /\ SubSeq(a, 1, i - 1) = SubSeq(b, 1, i - 1)
        /\ \/ Len(a) = i - 1
           \/ Ord(At(a, i)) < Ord(At(b, i))

HasNul(s) == \E i \in 1..Len(s) : At(s, i) = NUL

\* position of the first NUL of a buffer, the length of the C string in it
CStrLen(buf) ==
    IF HasNul(buf)
    THEN (CHOOSE i \in 1..Len(buf) :
              At(buf, i) = NUL /\ \A j \in 1..(i - 1) : At(buf, j) # NUL) - 1
    ELSE Len(buf)

\* FromCStr losing the last byte of the string
FromCStr_short(buf) == SubSeq(buf, 1, CStrLen(buf) - 1)

\* CStr::from_ptr(p).to_str().unwrap().to_owned(): the bytes before the first NUL
FromCStr(buf) == SubSeq(buf, 1, CStrLen(buf))

\* s occurs in t
Contains(t, s) ==
    \E i \in 1..(Len(t) - Len(s) + 1) : SubSeq(t, i, i + Len(s) - 1) = s

RECURSIVE Concat(_)
Concat(ss) == IF ss = <<>> THEN "" ELSE Head(ss) \o Concat(Tail(ss))

RECURSIVE MapChars(_, _)
\* replace each byte c of s by table[c] when c is in the table's domain
MapChars(s, table) ==
    IF s = "" THEN ""
    ELSE LET c == At(s, 1)
         IN  (IF c \in DOMAIN table THEN table[c] ELSE c)
                 \o MapChars(SubSeq(s, 2, Len(s)), table)

(***************************************************************************)
(* The parsed tree (the document model of the specification's section 3).  *)
(* A tree is the sequence of the document's top-level nodes: comments and  *)
(* processing instructions around exactly one root element.                *)
(***************************************************************************)
Elem(prefix, local, ns, attrs, children) ==
    [kind |-> "element", prefix |-> prefix, local |-> local, ns |-> ns,
     attrs |-> attrs, children |-> children]
Comment(data) == [kind |-> "comment", data |-> data]
PI(target, data) == [kind |-> "pi", target |-> target, data |-> data]
Text(data) == [kind |-> "text", data |-> data]
NsDecl(prefix, uri) == [prefix |-> prefix, uri |-> uri]
Attr(prefix, local, value) == [prefix |-> prefix, local |-> local, value |-> value]

Range(seq) == {seq[i] : i \in 1..Len(seq)}

QName(prefix, local) == IF prefix = "" THEN local ELSE prefix \o ":" \o local

\* the URI a prefix is bound to in a scope, "" when it is unbound
Lookup(scope, p) == IF p \in DOMAIN scope THEN scope[p] ELSE ""

\* the namespace axis of an element: its own declarations over its parent's scope
ScopeOf(parent, elem) ==
    LET own == {d.prefix : d \in Range(elem.ns)}
    IN  [p \in DOMAIN parent \cup own |->
            IF p \in own
            THEN (CHOOSE d \in Range(elem.ns) : d.prefix = p).uri
            ELSE parent[p]]

(***************************************************************************)
(* Section 4.1, namespace axis resolver.                                   *)
(***************************************************************************)
\* the prefixes an element visibly utilizes: its own and its attributes'
VisiblyUtilized(elem) ==
    {elem.prefix} \cup {a.prefix : a \in {b \in Range(elem.attrs) : b.prefix # ""}}

\* the prefixes whose binding is considered for rendering on an element
Candidates(mode, elem, scope, inclusive) ==
    IF mode = 1
    THEN VisiblyUtilized(elem) \cup inclusive
    ELSE DOMAIN scope

\* the prefixes rendered on an element: considered, and bound otherwise than
\* the nearest rendering on an ancestor
NsToRender(mode, elem, scope, rendered, inclusive) ==
    {p \in Candidates(mode, elem, scope, inclusive) :
        Lookup(scope, p) # Lookup(rendered, p)}

\* the bindings rendered on the path to the root, after an element
RenderedAfter(mode, elem, scope, rendered, inclusive) ==
    LET cands == Candidates(mode, elem, scope, inclusive)
    IN  [p \in DOMAIN rendered \cup cands |->
            IF p \in cands THEN Lookup(scope, p) ELSE rendered[p]]

(***************************************************************************)
(* Section 4.2, attribute and namespace ordering: by (k1, k2), byte-wise.  *)
(***************************************************************************)
KeyLess(a, b) ==
    \/ StrLess(a.k1, b.k1)
    \/ a.k1 = b.k1 /\ StrLess(a.k2, b.k2)

RECURSIVE SortByKey(_)
SortByKey(items) ==
    IF items = {} THEN <<>>
    ELSE LET m == CHOOSE x \in items : \A y \in items \ {x} : KeyLess(x, y)
         IN  <<m>> \o SortByKey(items \ {m})

\* namespace nodes by prefix, the default namespace first
SortedNs(prefixes, scope) ==
    SortByKey({[k1 |-> p, k2 |-> "", prefix |-> p, uri |-> Lookup(scope, p)] :
                  p \in prefixes})

\* attribute nodes in the order they were written
SortedAttrs_written(elem, scope) ==
    [i \in 1..Len(elem.attrs) |-> [attr |-> elem.attrs[i]]]

\* attribute nodes by namespace URI, then local name
SortedAttrs(elem, scope) ==
    SortByKey({[k1 |-> IF a.prefix = "" THEN "" ELSE Lookup(scope, a.prefix),
                k2 |-> a.local, attr |-> a] : a \in Range(elem.attrs)})

(***************************************************************************)
(* Section 4.3, node serializer.                                           *)
(***************************************************************************)
AttrEscapes ==
    [c \in {"&", "<", "\"", "\t", "\n", "\r"} |->
        CASE c = "&" -> "&amp;"
          [] c = "<" -> "&lt;"
          [] c = "\"" -> "&quot;"
          [] c = "\t" -> "&#9;"
          [] c = "\n" -> "&#xA;"
          [] c = "\r" -> "&#xD;"]

TextEscapes ==
    [c \in {"&", "<", ">", "\r"} |->
        CASE c = "&" -> "&amp;"
          [] c = "<" -> "&lt;"
          [] c = ">" -> "&gt;"
          [] c = "\r" -> "&#xD;"]

EscapeAttr(s) == MapChars(s, AttrEscapes)
EscapeText(s) == MapChars(s, TextEscapes)

RenderNs(n) ==
    " xmlns" \o (IF n.prefix = "" THEN "" ELSE ":" \o n.prefix)
        \o "=\"" \o EscapeAttr(n.uri) \o "\""

RenderAttr(a) ==
    " " \o QName(a.attr.prefix, a.attr.local) \o "=\"" \o EscapeAttr(a.attr.value) \o "\""

RenderAllNs(seq) == Concat([i \in 1..Len(seq) |-> RenderNs(seq[i])])
RenderAllAttrs(seq) == Concat([i \in 1..Len(seq) |-> RenderAttr(seq[i])])

RenderComment(node, with_comments) ==
    IF with_comments # 0 THEN "<!--" \o node.data \o "-->" ELSE ""

RenderPI(node) ==
    "<?" \o node.target \o (IF node.data = "" THEN "" ELSE " " \o node.data) \o "?>"

\* the start tag of an element, namespace nodes first, then attributes
StartTag(elem, mode, inclusive, scope, rendered) ==
    "<" \o QName(elem.prefix, elem.local)
        \o RenderAllNs(SortedNs(NsToRender(mode, elem, scope, rendered, inclusive), scope))
        \o RenderAllAttrs(SortedAttrs(elem, scope))
        \o ">"

EndTag(elem) == "</" \o QName(elem.prefix, elem.local) \o ">"

RECURSIVE RenderNode(_, _, _, _, _, _)
RECURSIVE RenderNodes(_, _, _, _, _, _)
RenderNode(node, mode, inclusive, with_comments, parent, rendered) ==
    CASE node.kind = "comment" -> RenderComment(node, with_comments)
      [] node.kind = "pi" -> RenderPI(node)
      [] node.kind = "text" -> EscapeText(node.data)
      [] node.kind = "element" ->
            LET scope == ScopeOf(parent, node)
            IN  StartTag(node, mode, inclusive, scope, rendered)
                    \o RenderNodes(node.children, mode, inclusive, with_comments, scope,
                                   RenderedAfter(mode, node, scope, rendered, inclusive))
                    \o EndTag(node)

RenderNodes(nodes, mode, inclusive, with_comments, parent, rendered) ==
    IF nodes = <<>> THEN ""
    ELSE RenderNode(Head(nodes), mode, inclusive, with_comments, parent, rendered)
            \o RenderNodes(Tail(nodes), mode, inclusive, with_comments, parent, rendered)

(***************************************************************************)
(* Section 4.4, canonicalization driver.                                   *)
(***************************************************************************)
EmptyScope == [p \in {} |-> ""]

RootIndex(tree) == CHOOSE i \in 1..Len(tree) : tree[i].kind = "element"

\* a top-level comment or processing instruction is set off from the root
\* element by one line feed
RenderTop(tree, i, mode, inclusive, with_comments) ==
    LET bytes == RenderNode(tree[i], mode, inclusive, with_comments, EmptyScope, EmptyScope)
    IN  IF tree[i].kind = "element" \/ bytes = "" THEN bytes
        ELSE IF i < RootIndex(tree) THEN bytes \o "\n" ELSE "\n" \o bytes

RenderDocument(tree, mode, inclusive, with_comments) ==
    Concat([i \in 1..Len(tree) |-> RenderTop(tree, i, mode, inclusive, with_comments)])

\* the prefixes of a null-terminated array of C strings
ReadNsList(list) ==
    LET end == IF \E i \in 1..Len(list) : IsNull(list[i])
               THEN CHOOSE i \in 1..Len(list) :
                        IsNull(list[i]) /\ \A j \in 1..(i - 1) : ~IsNull(list[j])
               ELSE Len(list) + 1
    IN  {FromCStr(list[i].at) : i \in 1..(end - 1)}

\* xmlReadDoc(cur, URL, encoding, options): the tree of a well-formed text, else null
xmlReadDoc(c_document) ==
    IF c_document.wf THEN Ptr(DocRes, c_document.tree) ELSE NULLPTR

\* xmlC14NDocDumpMemory(doc, nodes, mode, inclusive_ns_prefixes, with_comments,
\* doc_txt_ptr): the number of bytes written and the buffer, or a negative code
xmlC14NDocDumpMemory(doc, mode, inclusive_ns_prefixes, with_comments) ==
    IF IsNull(doc) \/ mode \notin {0, 1, 2}
    THEN [return_code |-> -1, output |-> NULLPTR]
    ELSE LET bytes == RenderDocument(doc.at, mode, ReadNsList(inclusive_ns_prefixes),
                                     with_comments)
         IN  [return_code |-> Len(bytes), output |-> Ptr(OutRes, bytes \o NUL)]

(***************************************************************************)
(* lib.rs: the options, the mode codes, the error code.                    *)
(***************************************************************************)
CanonicalizationMode == {"Canonical1_0", "ExclusiveCanonical1_0", "Canonical1_1"}

\* #[default] of CanonicalizationMode
DefaultMode == "ExclusiveCanonical1_0"

\* #[derive(Default)] of CanonicalizationOptions
DefaultOptions ==
    [mode |-> DefaultMode, keep_comments |-> FALSE, inclusive_ns_prefixes |-> <<>>]

\* to_c_int with the codes of the first two variants exchanged
to_c_int_swapped(mode) ==
    CASE mode = "Canonical1_0" -> 1
      [] mode = "ExclusiveCanonical1_0" -> 0
      [] mode = "Canonical1_1" -> 2

\* CanonicalizationMode::to_c_int
to_c_int(mode) ==
    CASE mode = "Canonical1_0" -> 0
      [] mode = "ExclusiveCanonical1_0" -> 1
      [] mode = "Canonical1_1" -> 2

\* the flag never set
CIntFromBool_zero(b) == 0

\* c_int::from(bool)
CIntFromBool(b) == IF b THEN 1 ELSE 0

\* the Result a call returns, or the panic that ends it
Ok(value) == [kind |-> "Ok", value |-> value]
Err(code) == [kind |-> "Err", code |-> code]
Panicked == [kind |-> "Panic"]
Undefined == [kind |-> "Undefined"]
NotCalled == [called |-> FALSE]

Event(op, res) == [op |-> op, res |-> res]

(***************************************************************************)
(* lib.rs: read_document, to_xml_string_vec, free_xml_string_vec,          *)
(* canonicalize_document_to_c_pointer, canonicalize_xml.  Each returns     *)
(* what the function returns and, in events, the allocations, uses and     *)
(* releases it makes, in order.                                            *)
(***************************************************************************)
\* read_document failing to parse once an earlier call has left its document
\* allocated
read_document_stale(document) ==
    IF document.nul
    THEN [panic |-> TRUE, events |-> <<>>]
    ELSE LET doc == IF "doc" \in retained THEN NULLPTR ELSE xmlReadDoc(document)
         IN  [panic |-> FALSE, document |-> doc,
              events |-> IF IsNull(doc) THEN <<>> ELSE <<Event("alloc", DocRes)>>]

\* CString::new(document).unwrap() panics on an interior NUL; otherwise the
\* pointer xmlReadDoc returns
read_document(document) ==
    IF document.nul
    THEN [panic |-> TRUE, events |-> <<>>]
    ELSE LET doc == xmlReadDoc(document)
         IN  [panic |-> FALSE, document |-> doc,
              events |-> IF IsNull(doc) THEN <<>> ELSE <<Event("alloc", DocRes)>>]

\* to_xml_string_vec handing the prefixes over last to first
to_xml_string_vec_reversed(vec) ==
    LET bad == {i \in 1..Len(vec) : HasNul(vec[i])}
        stop == IF bad = {} THEN Len(vec) + 1
                ELSE CHOOSE i \in bad : \A j \in bad : i <= j
        allocs == [i \in 1..(stop - 1) |-> Event("alloc", CStrRes(i))]
    IN  IF bad # {}
        THEN [panic |-> TRUE, events |-> allocs]
        ELSE [panic |-> FALSE, events |-> allocs,
              vec |-> [i \in 1..(Len(vec) + 1) |->
                          IF i <= Len(vec)
                          THEN Ptr(CStrRes(i), vec[Len(vec) + 1 - i] \o NUL)
                          ELSE NULLPTR]]

\* vec.into_iter().map(|s| CString::new(s).unwrap().into_raw()).chain(once(null))
\* .collect(): the strings before the first one with a NUL are already raw
\* pointers when the unwrap panics
to_xml_string_vec(vec) ==
    LET bad == {i \in 1..Len(vec) : HasNul(vec[i])}
        stop == IF bad = {} THEN Len(vec) + 1
                ELSE CHOOSE i \in bad : \A j \in bad : i <= j
        allocs == [i \in 1..(stop - 1) |-> Event("alloc", CStrRes(i))]
    IN  IF bad # {}
        THEN [panic |-> TRUE, events |-> allocs]
        ELSE [panic |-> FALSE, events |-> allocs,
              vec |-> [i \in 1..(Len(vec) + 1) |->
                          IF i <= Len(vec) THEN Ptr(CStrRes(i), vec[i] \o NUL)
                          ELSE NULLPTR]]

RECURSIVE free_xml_string_vec(_)
\* for s in vec { if !s.is_null() { CString::from_raw(s) } }
free_xml_string_vec(vec) ==
    IF vec = <<>> THEN <<>>
    ELSE (IF IsNull(Head(vec)) THEN <<>> ELSE <<Event("free", Head(vec).res)>>)
            \o free_xml_string_vec(Tail(vec))

\* the reads the native call makes of the pointers handed to it
NativeUses(document, ns_list_c) ==
    (IF IsNull(document) THEN <<>> ELSE <<Event("use", DocRes)>>)
        \o [i \in 1..(Len(ns_list_c) - 1) |-> Event("use", ns_list_c[i].res)]

\* canonicalize_document_to_c_pointer from the return of xmlC14NDocDumpMemory on:
\* free_xml_string_vec(ns_list_c), then (output, return_code)
c_pointer_after_dump(document, ns_list_c, mode, with_comments, ret) ==
    [panic |-> FALSE,
     output |-> ret.output,
     return_code |-> ret.return_code,
     native |-> [called |-> TRUE, doc_null |-> IsNull(document),
                 mode |-> mode, ns_list |-> ns_list_c.vec,
                 with_comments |-> with_comments,
                 return_code |-> ret.return_code,
                 output |-> ret.output],
     events |-> ns_list_c.events
                   \o NativeUses(document, ns_list_c.vec)
                   \o (IF IsNull(ret.output) THEN <<>> ELSE <<Event("alloc", OutRes)>>)
                   \o free_xml_string_vec(ns_list_c.vec)]

\* canonicalize_document_to_c_pointer from the return of to_xml_string_vec on
c_pointer_after_vec(options, document, ns_list_c) ==
    IF ns_list_c.panic
    THEN [panic |-> TRUE, events |-> ns_list_c.events]
    ELSE c_pointer_after_dump(
             document, ns_list_c, to_c_int(options.mode),
             CIntFromBool(options.keep_comments),
             xmlC14NDocDumpMemory(document, to_c_int(options.mode), ns_list_c.vec,
                                  CIntFromBool(options.keep_comments)))

canonicalize_document_to_c_pointer(options, document) ==
    c_pointer_after_vec(options, document,
                        to_xml_string_vec(options.inclusive_ns_prefixes))

\* xmlFreeDoc(document): a null document is not released
xmlFreeDoc(document) ==
    IF IsNull(document) THEN <<>> ELSE <<Event("free", DocRes)>>

\* BuildResult taking every nonzero return code for a failure
BuildResult_nonzero(output, return_code) ==
    IF return_code # 0
    THEN [result |-> Err(return_code), events |-> <<>>]
    ELSE [result |-> Undefined, events |-> <<>>]

\* the result built from the native return: the output buffer is read and
\* copied, and not released (the xmlFree call is commented out).  Reading a
\* null output is undefined behaviour; the native call sets output whenever
\* its return code is not negative.
BuildResult(output, return_code) ==
    IF return_code < 0
    THEN [result |-> Err(return_code), events |-> <<>>]
    ELSE IF IsNull(output)
    THEN [result |-> Undefined, events |-> <<>>]
    ELSE [result |-> Ok(FromCStr(output.at)), events |-> <<Event("use", OutRes)>>]

\* canonicalize_xml from the return of canonicalize_document_to_c_pointer on
canonicalize_xml_after_dump(doc, ret) ==
    IF ret.panic
    THEN [result |-> Panicked, native |-> NotCalled, events |-> doc.events \o ret.events]
    ELSE LET built == BuildResult(ret.output, ret.return_code)
         IN  [result |-> built.result,
              native |-> ret.native,
              events |-> doc.events \o ret.events \o built.events
                            \o xmlFreeDoc(doc.document)]

\* canonicalize_xml from the return of read_document on
canonicalize_xml_after_read(doc, options) ==
    IF doc.panic
    THEN [result |-> Panicked, native |-> NotCalled, events |-> doc.events]
    ELSE canonicalize_xml_after_dump(
             doc, canonicalize_document_to_c_pointer(options, doc.document))

canonicalize_xml(document, options) ==
    canonicalize_xml_after_read(read_document(document), options)

(***************************************************************************)
(* The inputs: document texts, given by what parsing them yields, and      *)
(* option sets.                                                            *)
(***************************************************************************)
SeqsUpTo(S, n) == UNION {[1..k -> S] : k \in 0..n}

\* the orders in which the members of a subset of S can be written
Perms(S) ==
    {q \in SeqsUpTo(S, Cardinality(S)) : \A i, j \in 1..Len(q) : q[i] = q[j] => i = j}

WellFormed(tree) == [nul |-> FALSE, wf |-> TRUE, tree |-> tree]
\* a text that is not well-formed, such as "<invalid xml"
Malformed == [nul |-> FALSE, wf |-> FALSE, tree |-> <<>>]
\* the text "<hi/>"
Hi == WellFormed(<<Elem("", "hi", <<>>, <<>>, <<>>)>>)
\* texts with an interior 0x00 byte
WithNul == {[nul |-> TRUE, wf |-> w, tree |-> Hi.tree] : w \in BOOLEAN}

\* comments, processing instructions, text and elements under a plain root
ChildPool ==
    {Comment("c"), PI("p", "<!--"), Text("t<&>"),
     Elem("", "b", <<>>, <<>>, <<>>),
     Elem("", "b", <<>>, <<>>, <<Comment("in")>>)}

ContentTrees ==
    {prolog \o <<Elem("", "a", <<>>, <<>>, children)>> \o epilog :
        prolog \in {<<>>, <<Comment("top")>>},
        children \in SeqsUpTo(ChildPool, MaxChildren),
        epilog \in {<<>>, <<Comment("end")>>}}

\* the namespace declarations and attributes written on a root element; the
\* URIs sort in the opposite order of the prefixes
NsX == NsDecl("x", "urn:x")
NsY == NsDecl("y", "urn:a")
NsD == NsDecl("", "urn:d")
AttrPool == {Attr("", "id", "1"), Attr("x", "k", "v"), Attr("y", "j", "w")}

Declared(ns, attrs) ==
    \A a \in Range(attrs) : a.prefix = "" \/ \E d \in Range(ns) : d.prefix = a.prefix

\* roots without children, their declarations and attributes in every order
OrderTrees ==
    {<<Elem("", "a", ns, attrs, <<>>)>> :
        ns \in {q \in Perms({NsX, NsY, NsD}) : Len(q) <= 2},
        attrs \in {q \in Perms(AttrPool) : Len(q) <= 2}}

\* children that use, redeclare or rebind the prefix x
UsePool ==
    {<<>>,
     <<Elem("", "b", <<>>, <<>>, <<>>)>>,
     <<Elem("x", "b", <<>>, <<>>, <<>>)>>,
     <<Elem("", "b", <<>>, <<Attr("x", "k", "v")>>, <<>>)>>,
     <<Elem("x", "b", <<>>, <<>>, <<Elem("x", "c", <<>>, <<>>, <<>>)>>)>>,
     <<Elem("x", "b", <<NsDecl("x", "urn:z")>>, <<>>, <<>>)>>,
     <<Elem("", "b", <<NsX>>, <<>>, <<Elem("x", "c", <<>>, <<>>, <<>>)>>)>>}

UseTrees ==
    {<<Elem(prefix, "a", ns, attrs, children)>> :
        prefix \in {"", "x"},
        ns \in {<<NsX>>, <<NsX, NsY>>},
        attrs \in {<<>>, <<Attr("x", "k", "v")>>},
        children \in UsePool}

Trees ==
    ContentTrees \cup {t \in OrderTrees : Declared(t[1].ns, t[1].attrs)} \cup UseTrees

Documents == {Malformed, Hi} \cup WithNul \cup {WellFormed(t) : t \in Trees}

\* prefixes a caller lists; the last one has an interior 0x00 byte
PrefixPool == {"x", "y", "x" \o NUL \o "y"}

\* no prefix is listed twice
AllOptions ==
    [mode : CanonicalizationMode, keep_comments : BOOLEAN,
     inclusive_ns_prefixes : {q \in Perms(PrefixPool) : Len(q) <= MaxPrefixes}]

\* canonicalize_xml on every input
Canon == [d \in Documents |-> [o \in AllOptions |-> canonicalize_xml(d, o)]]

(***************************************************************************)
(* The calls.                                                              *)
(***************************************************************************)
None == [kind |-> "None"]
NoMemo == [set |-> FALSE]

\* the allocations of a trace that are never released in it
Live(trace) ==
    {trace[i].res : i \in {j \in 1..Len(trace) : trace[j].op = "alloc"}}
        \ {trace[i].res : i \in {j \in 1..Len(trace) : trace[j].op = "free"}}

Init ==
    /\ pc = "idle"
    /\ call_document = None
    /\ call_options = None
    /\ result = None
    /\ native = None
    /\ events = <<>>
    /\ retained = {}
    /\ memo = NoMemo

\* the call of canonicalize_xml on d and o ends as ret says
Ends(d, o, ret) ==
    /\ call_document' = d
    /\ call_options' = o
    /\ result' = ret.result
    /\ native' = ret.native
    /\ events' = ret.events

\* one call of canonicalize_xml, from entry to return or panic
Call(docs, opts) ==
    /\ pc = "idle"
    /\ \E d \in docs, o \in opts : Ends(d, o, Canon[d][o])
    /\ pc' = "done"
    /\ UNCHANGED <<retained, memo>>

\* the caller takes the result; what the call did not release stays allocated
Return ==
    /\ pc = "done"
    /\ pc' = "idle"
    /\ retained' = retained \cup {r.kind : r \in Live(events)}
    /\ call_document' = None
    /\ call_options' = None
    /\ result' = None
    /\ native' = None
    /\ events' = <<>>
    /\ UNCHANGED memo

Next ==
    \/ Call(Documents, AllOptions)
    \/ Return

Spec == Init /\ [][Next]_vars

(***************************************************************************)
(* Repeated calls: a call is remembered and later calls with the same      *)
(* input are compared with it.  The inputs are a few documents of every    *)
(* kind, with at most one inclusive prefix.                                *)
(***************************************************************************)
RepeatDocuments ==
    {Malformed, Hi, [nul |-> TRUE, wf |-> TRUE, tree |-> Hi.tree],
     WellFormed(<<Comment("top"), Elem("", "a", <<>>, <<>>, <<Comment("c")>>)>>),
     WellFormed(<<Elem("", "a", <<NsX, NsY>>, <<>>, <<Elem("x", "b", <<>>, <<>>, <<>>)>>)>>)}

RepeatOptions == {o \in AllOptions : Len(o.inclusive_ns_prefixes) <= 1}

Remember ==
    /\ pc = "done"
    /\ ~memo.set
    /\ memo' = [set |-> TRUE, document |-> call_document, options |-> call_options,
                result |-> result, retained |-> retained]
    /\ UNCHANGED <<pc, call_document, call_options, result, native, events, retained>>

NextRepeat ==
    \/ Call(RepeatDocuments, RepeatOptions)
    \/ Remember
    \/ Return

SpecRepeat == Init /\ [][NextRepeat]_vars

(***************************************************************************)
(* Claims.                                                                 *)
(***************************************************************************)
Ended == pc = "done"
NativeCalled == pc = "done" /\ native.called

\* C1: when the native canonicalization has returned rc, the call returns
\* Err(rc), a value holding the code alone, exactly when rc is negative, and
\* otherwise Ok with all rc bytes of the native output.
C1_ErrIffNegative ==
    NativeCalled =>
        /\ result.kind \in {"Ok", "Err"}
        /\ result.kind = "Err" <=> native.return_code < 0
        /\ result.kind = "Err" =>
              /\ DOMAIN result = {"kind", "code"}
              /\ result.code = native.return_code
        /\ result.kind = "Ok" =>
              /\ result.value \o NUL = native.output.at
              /\ Len(result.value) = native.return_code

C1_Witness ==
    /\ NativeCalled
    /\ native.return_code < 0
    /\ result.kind = "Err"

\* C2: a text that is not well-formed makes the call return an error,
\* whatever the mode, keep_comments and inclusive_ns_prefixes.
C2_MalformedIsErr ==
    (Ended /\ ~call_document.nul /\ ~call_document.wf) => result.kind = "Err"

\* C3: every call ends by returning Ok or Err, never by panicking, also when
\* the document or an inclusive prefix has an interior NUL.
C3_NeverPanics ==
    Ended => result.kind \in {"Ok", "Err"}

\* C9: every resource a call allocates is released exactly once before the
\* call ends, none is used after its release, and nothing stays allocated
\* after a call.
C9_AllReleasedOnce ==
    /\ Ended =>
          /\ \A i \in 1..Len(events) :
                events[i].op = "alloc" =>
                    Cardinality({j \in 1..Len(events) :
                                    events[j] = Event("free", events[i].res)}) = 1
          /\ \A i, j \in 1..Len(events) :
                (i < j /\ events[i].op = "free") => events[j].res # events[i].res
    /\ retained = {}

\* C10: the native call receives the code 0, 1 or 2 of the mode of the
\* options (1 for the default options), and the inclusive prefixes in the
\* caller's order followed by exactly one null pointer.
C10_ModeAndPrefixesHandedOver ==
    NativeCalled =>
        /\ call_options.mode = "Canonical1_0" => native.mode = 0
        /\ call_options.mode = "ExclusiveCanonical1_0" => native.mode = 1
        /\ call_options.mode = "Canonical1_1" => native.mode = 2
        /\ call_options = [mode |-> "ExclusiveCanonical1_0", keep_comments |-> FALSE,
                      inclusive_ns_prefixes |-> <<>>] <=> call_options = DefaultOptions
        /\ Len(native.ns_list) = Len(call_options.inclusive_ns_prefixes) + 1
        /\ IsNull(native.ns_list[Len(native.ns_list)])
        /\ \A i \in 1..Len(call_options.inclusive_ns_prefixes) :
              /\ ~IsNull(native.ns_list[i])
              /\ native.ns_list[i].at = call_options.inclusive_ns_prefixes[i] \o NUL

C10_Witness ==
    /\ NativeCalled
    /\ call_options.mode = "Canonical1_1"
    /\ call_options.inclusive_ns_prefixes = <<"y", "x">>
    /\ native.mode = 2

Output == result.value
ReturnedOk == pc = "done" /\ result.kind = "Ok"

Letters == {At(ByteOrder, i) : i \in 11..Len(ByteOrder)}

Occurrences(t, s) ==
    {i \in 1..(Len(t) - Len(s) + 1) : SubSeq(t, i, i + Len(s) - 1) = s}

RECURSIVE Find(_, _, _)
\* the first position at or after i where s occurs in t, 0 when there is none
Find(t, s, i) ==
    IF i + Len(s) - 1 > Len(t) THEN 0
    ELSE IF SubSeq(t, i, i + Len(s) - 1) = s THEN i
    ELSE Find(t, s, i + 1)

RECURSIVE Split(_, _)
\* the pieces of t between the occurrences of the byte sep
Split(t, sep) ==
    LET k == Find(t, sep, 1)
    IN  IF k = 0 THEN <<t>>
        ELSE <<SubSeq(t, 1, k - 1)>> \o Split(SubSeq(t, k + 1, Len(t)), sep)

\* the positions where a start tag opens: "<" and the first letter of a name
StartTags(t) == {i \in 1..(Len(t) - 1) : At(t, i) = "<" /\ At(t, i + 1) \in Letters}

\* the tokens of the start tag opened at i: the name, then name="value" items
Tokens(t, i) == Split(SubSeq(t, i + 1, Find(t, ">", i) - 1), " ")

TokenName(token) == Head(Split(token, "="))
PrefixOf(qname) == IF Contains(qname, ":") THEN Head(Split(qname, ":")) ELSE ""
LocalOf(qname) == IF Contains(qname, ":") THEN Split(qname, ":")[2] ELSE qname
IsNsToken(token) == PrefixOf(TokenName(token)) = "xmlns" \/ TokenName(token) = "xmlns"
\* the prefix a namespace token declares
DeclaredBy(token) ==
    IF TokenName(token) = "xmlns" THEN "" ELSE LocalOf(TokenName(token))

RECURSIVE Elements(_)
\* the elements of a sequence of nodes, at any depth
Elements(nodes) ==
    IF nodes = <<>> THEN {}
    ELSE (IF Head(nodes).kind = "element"
          THEN {Head(nodes)} \cup Elements(Head(nodes).children)
          ELSE {})
            \cup Elements(Tail(nodes))

RECURSIVE CountElements(_)
CountElements(nodes) ==
    IF nodes = <<>> THEN 0
    ELSE (IF Head(nodes).kind = "element"
          THEN 1 + CountElements(Head(nodes).children)
          ELSE 0)
            + CountElements(Tail(nodes))

RECURSIVE CommentsOf(_)
\* the comments of a sequence of nodes as they are written, in document order
CommentsOf(nodes) ==
    IF nodes = <<>> THEN <<>>
    ELSE (CASE Head(nodes).kind = "comment" -> <<"<!--" \o Head(nodes).data \o "-->">>
            [] Head(nodes).kind = "element" -> CommentsOf(Head(nodes).children)
            [] OTHER -> <<>>)
            \o CommentsOf(Tail(nodes))

RECURSIVE WithoutComments(_)
\* a sequence of nodes with its comment nodes removed, at any depth
WithoutComments(nodes) ==
    IF nodes = <<>> THEN <<>>
    ELSE (CASE Head(nodes).kind = "comment" -> <<>>
            [] Head(nodes).kind = "element" ->
                  <<[Head(nodes) EXCEPT !.children = WithoutComments(@)]>>
            [] OTHER -> <<Head(nodes)>>)
            \o WithoutComments(Tail(nodes))

RECURSIVE InOrder(_, _, _)
\* the strings of pieces occur in t one after the other, from position i on
InOrder(t, pieces, i) ==
    IF pieces = <<>> THEN TRUE
    ELSE LET k == Find(t, Head(pieces), i)
         IN  k # 0 /\ InOrder(t, Tail(pieces), k + Len(Head(pieces)))

(***************************************************************************)
(* Claims about the canonical form.                                        *)
(***************************************************************************)
\* C8: every element has an explicit start tag and an explicit end tag, no
\* start tag is self-closed, and "<hi/>" under Canonical1_0 without comments
\* yields exactly "<hi></hi>".
C8_NoSelfClosedTag ==
    ReturnedOk =>
        /\ Cardinality(StartTags(Output)) = CountElements(call_document.tree)
        /\ Cardinality(Occurrences(Output, "</")) = CountElements(call_document.tree)
        /\ \A e \in Elements(call_document.tree) :
              Contains(Output, "</" \o QName(e.prefix, e.local) \o ">")
        /\ \A i \in StartTags(Output) : At(Output, Find(Output, ">", i) - 1) # "/"
        /\ (call_document = Hi /\ call_options.mode = "Canonical1_0"
                /\ ~call_options.keep_comments)
              => Output = "<hi></hi>"

C8_Witness ==
    /\ ReturnedOk
    /\ call_document = Hi
    /\ call_options.mode = "Canonical1_0"
    /\ ~call_options.keep_comments
    /\ Output = "<hi></hi>"

\* the result of the call on another document, or with other options
ResultOn(d, o) == canonicalize_xml(d, o).result

\* C4 as stated: without keep_comments the output has no "<!--" at all; with
\* it every comment appears as written, in document order; the flag is
\* handed over unchanged.
C4_NoCommentOpenerAtAll ==
    ReturnedOk =>
        /\ native.with_comments = (IF call_options.keep_comments THEN 1 ELSE 0)
        /\ ~call_options.keep_comments => ~Contains(Output, "<!--")
        /\ call_options.keep_comments =>
              InOrder(Output, CommentsOf(call_document.tree), 1)

\* C4, amended: without keep_comments no comment node contributes a byte,
\* the output being that of the document with its comment nodes removed;
\* with it every comment appears as written, in document order; the flag is
\* handed over unchanged.
C4_CommentsContributeNothing ==
    ReturnedOk =>
        /\ native.with_comments = (IF call_options.keep_comments THEN 1 ELSE 0)
        /\ ~call_options.keep_comments =>
              /\ \A b \in BOOLEAN :
                    ResultOn(WellFormed(WithoutComments(call_document.tree)),
                             [call_options EXCEPT !.keep_comments = b]) = result
              /\ \A i \in 1..Len(CommentsOf(call_document.tree)) :
                    ~Contains(Output, CommentsOf(call_document.tree)[i])
        /\ call_options.keep_comments =>
              InOrder(Output, CommentsOf(call_document.tree), 1)

\* three comments, kept
C4_Witness ==
    /\ ReturnedOk
    /\ call_options.keep_comments
    /\ Len(CommentsOf(call_document.tree)) = 3
    /\ InOrder(Output, <<"<!--top-->", "<!--c-->", "<!--end-->">>, 1)

\* the prefixes of the element and attribute names of a sequence of nodes
PrefixesUsed(nodes) ==
    UNION {VisiblyUtilized(e) : e \in Elements(nodes)}

\* the prefixes a start tag uses in its element name and attribute names
UsedInTag(tokens) ==
    {PrefixOf(Head(tokens))}
        \cup {PrefixOf(TokenName(tokens[k])) :
                k \in {m \in 2..Len(tokens) :
                          ~IsNsToken(tokens[m]) /\ Contains(TokenName(tokens[m]), ":")}}

\* C5: in ExclusiveCanonical1_0 mode a start tag declares a prefix only if
\* its element name or one of its attribute names uses the prefix or the
\* prefix is in inclusive_ns_prefixes; a prefix no name uses and the list
\* does not hold is declared nowhere in the output; a used prefix is declared
\* on the element using it and not again below it.
C5_ExclusiveUtilization ==
    (ReturnedOk /\ call_options.mode = "ExclusiveCanonical1_0") =>
        /\ \A i \in StartTags(Output) :
              LET tokens == Tokens(Output, i)
              IN  \A k \in 2..Len(tokens) :
                      IsNsToken(tokens[k]) =>
                          DeclaredBy(tokens[k])
                              \in UsedInTag(tokens)
                                    \cup Range(call_options.inclusive_ns_prefixes)
        /\ \A p \in {"x", "y"} :
              (p \notin PrefixesUsed(call_document.tree)
                  /\ p \notin Range(call_options.inclusive_ns_prefixes))
                      => ~Contains(Output, "xmlns:" \o p \o "=")
        /\ (call_options.inclusive_ns_prefixes = <<>> /\ ~call_options.keep_comments) =>
              /\ call_document
                    = WellFormed(<<Elem("", "a", <<NsX>>, <<>>,
                                        <<Elem("", "b", <<>>, <<>>, <<>>)>>)>>)
                    => Output = "<a><b></b></a>"
              /\ call_document
                    = WellFormed(<<Elem("", "a", <<NsX>>, <<>>,
                                        <<Elem("x", "b", <<>>, <<>>, <<>>)>>)>>)
                    => Output = "<a><x:b xmlns:x=\"urn:x\"></x:b></a>"
              /\ call_document
                    = WellFormed(<<Elem("", "a", <<NsX>>, <<>>,
                                        <<Elem("x", "b", <<>>, <<>>,
                                               <<Elem("x", "c", <<>>, <<>>, <<>>)>>)>>)>>)
                    => Output = "<a><x:b xmlns:x=\"urn:x\"><x:c></x:c></x:b></a>"

\* x is declared and used below the root, y is declared, unused and listed
C5_Witness ==
    /\ ReturnedOk
    /\ call_options.mode = "ExclusiveCanonical1_0"
    /\ call_options.inclusive_ns_prefixes = <<"y">>
    /\ call_document
          = WellFormed(<<Elem("", "a", <<NsX, NsY>>, <<>>,
                              <<Elem("x", "b", <<>>, <<>>, <<>>)>>)>>)
    /\ Output = "<a xmlns:y=\"urn:a\"><x:b xmlns:x=\"urn:x\"></x:b></a>"

\* the orders in which the items of a sequence without repetition can be written
Orders(seq) == {q \in [1..Len(seq) -> Range(seq)] : Range(q) = Range(seq)}

RECURSIVE Reorderings(_)
\* the sequences of nodes that differ from nodes at most in the order in
\* which elements, at any depth, have their declarations and attributes
\* written
Reorderings(nodes) ==
    IF nodes = <<>> THEN {<<>>}
    ELSE LET n == Head(nodes)
             heads == IF n.kind = "element"
                      THEN {[n EXCEPT !.ns = ns, !.attrs = attrs, !.children = children] :
                               ns \in Orders(n.ns), attrs \in Orders(n.attrs),
                               children \in Reorderings(n.children)}
                      ELSE {n}
         IN  {<<h>> \o t : h \in heads, t \in Reorderings(Tail(nodes))}

\* the URI each prefix of a generated attribute is bound to
UriOf(prefix) ==
    CASE prefix = "" -> ""
      [] prefix = "x" -> NsX.uri
      [] prefix = "y" -> NsY.uri

AttrKey(token) ==
    [k1 |-> UriOf(PrefixOf(TokenName(token))), k2 |-> LocalOf(TokenName(token))]
NsKey(token) == [k1 |-> DeclaredBy(token), k2 |-> ""]

\* the items of a start tag are the namespace declarations by ascending
\* prefix, then the attributes by ascending namespace URI and local name
TagSorted(tokens) ==
    \A k \in 2..(Len(tokens) - 1) :
        /\ IsNsToken(tokens[k + 1]) => IsNsToken(tokens[k])
        /\ (IsNsToken(tokens[k]) /\ IsNsToken(tokens[k + 1]))
              => KeyLess(NsKey(tokens[k]), NsKey(tokens[k + 1]))
        /\ (~IsNsToken(tokens[k]) /\ ~IsNsToken(tokens[k + 1]))
              => KeyLess(AttrKey(tokens[k]), AttrKey(tokens[k + 1]))

\* C6: a document that differs from the one canonicalized only in the order
\* of attributes or namespace declarations has, under the same options, the
\* same result; every start tag of the output has its namespace declarations
\* first, by prefix, then its attributes by namespace URI and local name.
C6_OrderInsensitive ==
    Ended =>
        /\ \A tree \in Reorderings(call_document.tree) :
              ResultOn([call_document EXCEPT !.tree = tree], call_options) = result
        /\ result.kind = "Ok" =>
              \A i \in StartTags(Output) :
                  LET tokens == Tokens(Output, i) IN TagSorted(tokens)

\* two declarations and two attributes, written against the canonical order
C6_Witness ==
    /\ ReturnedOk
    /\ call_options.mode = "Canonical1_0"
    /\ call_document
          = WellFormed(<<Elem("", "a", <<NsY, NsX>>,
                              <<Attr("x", "k", "v"), Attr("y", "j", "w")>>, <<>>)>>)
    /\ Output = "<a xmlns:x=\"urn:x\" xmlns:y=\"urn:a\" y:j=\"w\" x:k=\"v\"></a>"

====
